---- MODULE Spec2Model ----
(***************************************************************************)
(* csv-editor: session lifecycle and durability subsystem.                 *)
(*                                                                         *)
(* Part 1 models one CSVSession with its HistoryManager                    *)
(* (models/csv_session.py, models/history_manager.py): load, edit, undo,   *)
(* redo, restore, clear.  Part 2 models the AutoSaveManager objects of one *)
(* session and the asyncio tasks that run trigger_save on them             *)
(* (models/auto_save.py).  Part 3 models the lock of a manager under       *)
(* cancellation, Part 4 the durability scheduler driven by edits           *)
(* (trigger_auto_save_if_needed, placement strategies, retention pruning), *)
(* Part 5 the SessionManager directory, Part 6 the sweep of a session with *)
(* periodic loops, Part 7 the persisted history (_save_history,            *)
(* _load_history), Part 8 operation ids read from the clock, Part 9 the     *)
(* backup directory shared by several sessions.                            *)
(*                                                                         *)
(* Python's None / Optional[T] is a sequence of length <= 1: <<>> is None  *)
(* and <<x>> is the value x.  Python list indices are 0-based, TLA+        *)
(* sequences 1-based: history[i] of the code is history[i + 1] here.       *)
(***************************************************************************)
EXTENDS Integers, Sequences, FiniteSets, TLC

(***************************************************************************)
(* Bounds of the model.                                                    *)
(***************************************************************************)
\* HistoryManager(max_history=100): constructor parameter, scaled down so
\* that front eviction happens within MaxRecords recorded operations.
max_history == 3
\* HistoryManager(snapshot_interval=5): constructor parameter, scaled down.
snapshot_interval == 2
\* add_operation is called at most MaxRecords times in a behaviour
MaxRecords == 5
\* a manager's save_count stays within 0..MaxSaves
MaxSaves == 1
\* AutoSaveManager objects constructed for the session in a behaviour
MaxManagers == 2
\* asyncio tasks created in a behaviour
MaxTasks == 2
\* AutoSaveConfig(max_backups=10): constructor parameter, scaled down so
\* that retention pruning happens within MaxWrites saves.
max_backups == 2
\* successful writes of a behaviour of the durability scheduler (Part 4)
\* and of the shared backup directory (Part 9)
MaxWrites == 3
\* the clock runs through 0..MaxClock (ttl units, Part 5)
MaxClock == 2
\* the clock runs through 0..MaxSeconds (seconds, Part 4)
MaxSeconds == 1
\* operations recorded in a behaviour of Part 4
MaxEdits == 3
\* operations recorded in a behaviour of Part 7 and of Part 8
MaxPersisted == 4
\* readings of datetime.utcnow() are within 0..MaxStamp
MaxStamp == 2
\* CSVSession(ttl_minutes=60): constructor parameter, in clock units
ttl == 1
\* SessionManager(max_sessions=100): constructor parameter, scaled down
max_sessions == 2
\* sessions created in a behaviour of the directory (Part 5)
MaxCreated == 3
\* the id of the session whose fields are the variables of Parts 1 to 4
\* (CSVSession.session_id)
SID == 1

None == <<>>
Some(x) == <<x>>

VARIABLES
    \* ---- CSVSession ----
    df,             \* CSVSession.df: None or Some(dataset)
    file_path,      \* CSVSession.file_path: None or Some(path)
    \* ---- HistoryManager ----
    history,        \* HistoryManager.history: sequence of OperationHistory
    current_index,  \* HistoryManager.current_index (0-based, -1 = before all)
    redo_stack,     \* HistoryManager.redo_stack
    nrec,           \* number of OperationHistory objects created so far
    storage_type,   \* HistoryManager.storage_type: "memory", "json", "pickle"
    history_files,  \* history_dir: the history file of the session and the
                    \* snapshot files of snapshots/{session_id}/
    needs_autosave, \* CSVSession.metadata.get("needs_autosave")
    \* ---- the clock and the SessionManager ----
    now,            \* datetime.utcnow()
    sessions,       \* SessionManager.sessions: id -> [last_accessed]
    sessions_to_cleanup, \* SessionManager.sessions_to_cleanup
    nsessions,      \* number of session ids drawn so far (uuid4: never reused)
    \* ---- AutoSaveManager objects and the files they write ----
    managers,       \* every AutoSaveManager constructed for the session
    auto_save_manager, \* CSVSession.auto_save_manager: index into managers
    files,          \* the file system: set of <<path, content, mtime>>
    tasks,          \* asyncio tasks running trigger_save / the periodic loop
    \* ---- outcome of the last call and history of calls ----
    result,         \* what the last call returned: [call, success, error]
                    \* and, for some calls, the value returned
    prev_call,      \* the call before the last one
    saved,          \* state captured when the last call was entered
    run,            \* edits and undos since the last load_data
    trim            \* the last add_operation: cursor and length right after
                    \* the append, uids of the entries that were past the cursor

vars == <<df, file_path, history, current_index, redo_stack, nrec,
          storage_type, history_files, needs_autosave, now, sessions, sessions_to_cleanup, nsessions,
          managers, auto_save_manager, files, tasks,
          result, prev_call, saved, run, trim>>

(***************************************************************************)
(* OperationHistory (history_manager.py:25-43).  uid names the entry that   *)
(* add_operation created (the n-th one); prev records the dataset that was *)
(* live when the handler that recorded the entry was entered.  Neither is  *)
(* a field of the code's object; they follow the entry for the properties. *)
(***************************************************************************)
OperationHistory(uid, operation_id, operation_type, data_snapshot, prev) ==
    [uid |-> uid, operation_id |-> operation_id,
     operation_type |-> operation_type,
     data_snapshot |-> data_snapshot, prev |-> prev]

HM == [history |-> history, current_index |-> current_index,
       redo_stack |-> redo_stack]

Max(S) == CHOOSE x \in S : \A y \in S : y <= x

\* history_manager.py:200-205, enable_snapshots = True (csv_session.py:50)
take_snapshot(h, current_data) ==
    /\ current_data # None
    /\ (Len(h) % snapshot_interval = 0 \/ Len(h) = 0)

\* history_manager.py:221-224: one entry popped from the front
trim_keeps_cursor(h, c) ==
    IF Len(h) > max_history
    THEN [history |-> Tail(h), current_index |-> c]
    ELSE [history |-> h, current_index |-> c]
trim_never(h, c) == [history |-> h, current_index |-> c]
trim_history(h, c) ==
    IF Len(h) > max_history
    THEN [history |-> Tail(h), current_index |-> c - 1]
    ELSE [history |-> h, current_index |-> c]

\* history_manager.py:193-195
truncate_after_current(hm) ==
    IF hm.current_index < Len(hm.history) - 1
    THEN SubSeq(hm.history, 1, hm.current_index + 1)
    ELSE hm.history

\* history_manager.py:190-191
redo_after_add_kept(hm) == hm.redo_stack
redo_after_add(hm) == <<>>

\* HistoryManager.add_operation, history_manager.py:182-231 (the log; the
\* files are written by record_operation below).  removed: the entry popped
\* from the front, if any.
add_operation(hm, uid, operation_id, operation_type, current_data, prev) ==
    LET h1 == truncate_after_current(hm)
        op == OperationHistory(uid, operation_id, operation_type,
                 IF take_snapshot(h1, current_data) THEN current_data ELSE None,
                 prev)
        h2 == Append(h1, op)
        c2 == hm.current_index + 1
        t  == trim_history(h2, c2)
    IN  [history |-> t.history, current_index |-> t.current_index,
         redo_stack |-> redo_after_add(hm),
         appended_index |-> c2, appended_len |-> Len(h2),
         removed |-> IF Len(t.history) < Len(h2) THEN Some(Head(h2)) ELSE None]

\* history_manager.py:239-245
can_undo(hm) == hm.current_index >= 0
can_redo(hm) == Len(hm.redo_stack) > 0

\* history_manager.py:259-264: for i in range(index, -1, -1), first snapshot
EarliestSnapshot(h, index) ==
    LET S == {i \in 0..index : i < Len(h) /\ h[i + 1].data_snapshot # None}
    IN  IF S = {} THEN None
        ELSE h[(CHOOSE i \in S : \A j \in S : i <= j) + 1].data_snapshot
NearestSnapshot(h, index) ==
    LET S == {i \in 0..index : i < Len(h) /\ h[i + 1].data_snapshot # None}
    IN  IF S = {} THEN None ELSE h[Max(S) + 1].data_snapshot

\* HistoryManager.undo, history_manager.py:247-273 (called with can_undo)
undo(hm) ==
    LET current_op == hm.history[hm.current_index + 1]
    IN  [history |-> hm.history,
         current_index |-> hm.current_index - 1,
         redo_stack |-> Append(hm.redo_stack, current_op),
         operation |-> current_op,
         snapshot |-> NearestSnapshot(hm.history, hm.current_index - 1)]

\* HistoryManager.redo, history_manager.py:275-299 (called with can_redo)
redo_keeps_stack(hm) ==
    LET c2 == hm.current_index + 1
    IN  [history |-> hm.history,
         current_index |-> c2,
         redo_stack |-> hm.redo_stack,
         operation |-> hm.redo_stack[Len(hm.redo_stack)],
         snapshot |-> IF c2 < Len(hm.history)
                      THEN hm.history[c2 + 1].data_snapshot ELSE None]
redo(hm) ==
    LET n  == Len(hm.redo_stack)
        c2 == hm.current_index + 1
    IN  [history |-> hm.history,
         current_index |-> c2,
         redo_stack |-> SubSeq(hm.redo_stack, 1, n - 1),
         operation |-> hm.redo_stack[n],
         snapshot |-> IF c2 < Len(hm.history)
                      THEN hm.history[c2 + 1].data_snapshot ELSE None]

\* history_manager.py:325-330: index of the first entry with that id, or None
FindOperation_or_first(h, operation_id) ==
    LET S == {i \in 0..(Len(h) - 1) : h[i + 1].operation_id = operation_id}
    IN  IF S # {} THEN Some(CHOOSE i \in S : \A j \in S : i <= j)
        ELSE IF Len(h) > 0 THEN Some(0) ELSE None
FindOperation(h, operation_id) ==
    LET S == {i \in 0..(Len(h) - 1) : h[i + 1].operation_id = operation_id}
    IN  IF S = {} THEN None ELSE Some(CHOOSE i \in S : \A j \in S : i <= j)

\* HistoryManager.restore_to_operation, history_manager.py:323-354
restore_to_operation(hm, operation_id) ==
    LET t == FindOperation(hm.history, operation_id)
        s == IF t = None THEN None ELSE NearestSnapshot(hm.history, t[1])
    IN  IF s = None
        THEN [history |-> hm.history, current_index |-> hm.current_index,
              redo_stack |-> hm.redo_stack, snapshot |-> None]
        ELSE [history |-> hm.history, current_index |-> t[1],
              redo_stack |-> <<>>, snapshot |-> s]

(***************************************************************************)
(* The persisted history (history_manager.py:99-180).                      *)
(*                                                                         *)
(* history_files = [log, snapshots].  log is the history file of the       *)
(* session: None (no file) or Some([readable, history, current_index]).    *)
(* Under "json" the file holds one dict per entry (to_dict) and every      *)
(* snapshot is a file of its own named by the operation_id: snapshots is   *)
(* the set of <<operation_id, content>>, content 0 being a file that       *)
(* pickle cannot read.  Under "pickle" the file holds the entries          *)
(* themselves, snapshots included.                                         *)
(***************************************************************************)
NoHistoryFiles == [log |-> None, snapshots |-> {}]

\* OperationHistory.to_dict, history_manager.py:45-54; valid = FALSE stands
\* for a dict that from_dict cannot read (a missing key, a bad timestamp)
to_dict(op) ==
    [valid |-> TRUE, uid |-> op.uid, prev |-> op.prev,
     operation_id |-> op.operation_id, operation_type |-> op.operation_type,
     has_snapshot |-> op.data_snapshot # None]

\* OperationHistory.from_dict, history_manager.py:56-66
from_dict(d, data_snapshot) ==
    OperationHistory(d.uid, d.operation_id, d.operation_type,
                     data_snapshot, d.prev)

\* history_manager.py:159-163: one file per entry that has a snapshot, in
\* the order of the log (of two entries with one id the later one is kept)
write_no_snapshots(snapshots, h) == snapshots
write_snapshots(snapshots, h) ==
    LET W == {i \in 1..Len(h) : h[i].data_snapshot # None}
    IN  {b \in snapshots : \A i \in W : b[1] # h[i].operation_id}
        \cup {<<h[i].operation_id, h[i].data_snapshot[1]>> :
                i \in {i \in W : \A j \in W :
                          h[j].operation_id = h[i].operation_id => j <= i}}

\* HistoryManager._save_history, history_manager.py:143-180
_save_history(fs, storage, h, c) ==
    CASE storage = "json" ->
            [log |-> Some([readable |-> TRUE,
                           history |-> [i \in 1..Len(h) |-> to_dict(h[i])],
                           current_index |-> c]),
             snapshots |-> write_snapshots(fs.snapshots, h)]
      [] storage = "pickle" ->
            [log |-> Some([readable |-> TRUE, history |-> h,
                           current_index |-> c]),
             snapshots |-> fs.snapshots]
      [] OTHER -> fs

\* history_manager.py:226-230: the snapshot file of the evicted entry
remove_snapshot_file(fs, storage, removed) ==
    IF removed # None /\ removed[1].data_snapshot # None /\ storage # "memory"
    THEN [fs EXCEPT !.snapshots =
             {b \in @ : b[1] # removed[1].operation_id}]
    ELSE fs

\* history_manager.py:117-126: the entry read from dict d.  unreadable: the
\* read raises (from_dict on a bad dict, pickle.load on a bad snapshot file)
snapshot_file(fs, d) == {b \in fs.snapshots : b[1] = d.operation_id}
unreadable(fs, d) ==
    \/ ~d.valid
    \/ d.has_snapshot /\ \E b \in snapshot_file(fs, d) : b[2] = 0
loaded_entry(fs, d) ==
    from_dict(d, IF d.has_snapshot /\ snapshot_file(fs, d) # {}
                 THEN Some((CHOOSE b \in snapshot_file(fs, d) : TRUE)[2])
                 ELSE None)

\* HistoryManager._load_history, history_manager.py:109-141, run by the
\* constructor on an empty log with current_index = -1.  An exception ends
\* the load where it is raised and is logged (140-141).
_load_history(fs, storage) ==
    LET empty == [history |-> <<>>, current_index |-> -1]
    IN  IF storage = "memory" \/ fs.log = None THEN empty
        ELSE IF ~fs.log[1].readable THEN empty
        ELSE IF storage = "pickle"
             THEN [history |-> fs.log[1].history,
                   current_index |-> fs.log[1].current_index]
        ELSE LET ds  == fs.log[1].history
                 bad == {i \in 1..Len(ds) : unreadable(fs, ds[i])}
                 n   == IF bad = {} THEN Len(ds)
                        ELSE (CHOOSE i \in bad : \A j \in bad : i <= j) - 1
             IN  [history |-> [i \in 1..n |-> loaded_entry(fs, ds[i])],
                  current_index |-> IF bad = {}
                                    THEN fs.log[1].current_index ELSE -1]

\* history_manager.py:362-374: the history file and the snapshot directory
remove_history_file_only(fs) == [fs EXCEPT !.log = None]
remove_history_files(fs) == NoHistoryFiles

(***************************************************************************)
(* AutoSaveConfig and AutoSaveManager (auto_save.py).                      *)
(***************************************************************************)
\* AutoSaveConfig.__init__ defaults, auto_save.py:37-48
AutoSaveConfig(enabled, mode, strategy) ==
    [enabled |-> enabled, mode |-> mode, strategy |-> strategy]
DefaultConfig == AutoSaveConfig(TRUE, "after_operation", "overwrite")

\* AutoSaveManager.__init__, auto_save.py:97-105.  lock is the task holding
\* self._lock (0 = unlocked), waiters the tasks queued on it in FIFO order.
AutoSaveManager(config, original_file_path) ==
    [config |-> config, original_file_path |-> original_file_path,
     last_save |-> now, save_count |-> 0, periodic_task |-> None,
     lock |-> 0, waiters |-> <<>>]

\* AutoSaveManager.should_save_after_operation, auto_save.py:233-238
should_save_ignoring_enabled(m) ==
    m.config.mode \in {"after_operation", "hybrid"}
should_save_after_operation(m) ==
    m.config.enabled /\ m.config.mode \in {"after_operation", "hybrid"}

\* AutoSaveManager._get_save_path, auto_save.py:180-202.  A path is
\* <<name, suffix>>: the timestamp of a backup has a resolution of one second
\* (strftime("%Y%m%d_%H%M%S")), the suffix of a version is save_count + 1.
_get_save_path_fallback(m) == <<"autosave", 0>>
_get_save_path(m) ==
    CASE m.config.strategy = "custom"    -> <<"custom", 0>>
      [] m.config.strategy = "overwrite" ->
            IF m.original_file_path # None
            THEN <<m.original_file_path[1], 0>>
            ELSE <<"autosave", 0>>
      [] m.config.strategy = "backup"    -> <<"backup", now>>
      [] m.config.strategy = "versioned" -> <<"version", m.save_count + 1>>

\* the number of successful saves of the session so far; the modification
\* time of a file is the ordinal of the write that produced it (the file
\* system's clock is finer than the one-second clock of the backup names)
RECURSIVE SumSaves(_)
SumSaves(ms) ==
    IF ms = <<>> THEN 0 ELSE Head(ms).save_count + SumSaves(Tail(ms))

\* the write of CSVSession._save_callback, csv_session.py:134-146
WriteFile(fs, path, content, mtime) ==
    {f \in fs : f[1] # path} \cup {<<path, content, mtime>>}

\* the files "*{session_id}*" of backup_dir, auto_save.py:211-219
InBackupDir(f) == f[1][1] \in {"backup", "version"}
BackupFiles(fs) == {f \in fs : InBackupDir(f)}

\* auto_save.py:222-227: sort by mtime, pop and unlink the oldest while more
\* than max_backups are listed
Oldest(B) == CHOOSE f \in B : \A g \in B : f[3] <= g[3]
Newest(B) == CHOOSE f \in B : \A g \in B : f[3] >= g[3]
RECURSIVE prune_newest_first(_)
prune_newest_first(B) ==
    IF Cardinality(B) > max_backups
    THEN prune_newest_first(B \ {Newest(B)}) ELSE B
RECURSIVE prune(_)
prune(B) ==
    IF Cardinality(B) > max_backups THEN prune(B \ {Oldest(B)}) ELSE B

\* AutoSaveManager._cleanup_old_backups, auto_save.py:204-231
_cleanup_old_backups(fs) == (fs \ BackupFiles(fs)) \cup prune(BackupFiles(fs))

\* CSVSession._save_callback, csv_session.py:127-157.  io_ok = FALSE: the
\* write raised; the exception is caught at 156-157.
_save_callback(data, io_ok) ==
    IF data = None
    THEN [success |-> FALSE, error |-> "No data to save"]
    ELSE IF io_ok
         THEN [success |-> TRUE, error |-> ""]
         ELSE [success |-> FALSE, error |-> "write failed"]

\* auto_save.py:147-149: the counter moves on success only
save_count_always(m, success) == m.save_count + 1
save_count_after(m, success) ==
    IF success THEN m.save_count + 1 ELSE m.save_count

\* AutoSaveManager.trigger_save run to completion by a foreground call while
\* no other task holds or awaits the lock, auto_save.py:137-178 with the
\* callback csv_session.py:127-157.
\* Result: [managers, files, success, error, save_path].
trigger_save_now(ms, i, fs, data, io_ok) ==
    LET m  == ms[i]
        r  == _save_callback(data, io_ok)
        w  == WriteFile(fs, _get_save_path(m), data[1], SumSaves(ms) + 1)
    IN  [managers |-> [ms EXCEPT
                         ![i].save_count = save_count_after(m, r.success),
                         ![i].last_save = IF r.success THEN now ELSE @],
         files |-> IF ~r.success THEN fs
                   ELSE IF m.config.strategy \in {"backup", "versioned"}
                        THEN _cleanup_old_backups(w) ELSE w,
         success |-> r.success,
         error |-> r.error,
         save_path |-> IF r.success THEN Some(_get_save_path(m)) ELSE None]

\* task.cancel() and the cancelled task running to its end: CancelledError is
\* raised at the task's suspension point, leaves the "async with" (releasing
\* a held lock, leaving the waiters' queue) and ends the loop,
\* auto_save.py:132-133
RemoveWaiter(w, t) == SelectSeq(w, LAMBDA x : x # t)
cancel_task_keeps_lock(ms, ts, t) ==
    [managers |-> ms,
     tasks |-> [ts EXCEPT ![t].pc = "done", ![t].save_path = None,
                          ![t].cancelled = ts[t].pc]]
cancel_task(ms, ts, t) ==
    LET i == ts[t].manager
    IN  [managers |->
            CASE ts[t].pc = "writing" -> [ms EXCEPT ![i].lock = 0]
              [] ts[t].pc = "waiting" ->
                    [ms EXCEPT ![i].waiters = RemoveWaiter(@, t)]
              [] OTHER -> ms,
         tasks |-> [ts EXCEPT ![t].pc = "done", ![t].save_path = None,
                              ![t].cancelled = ts[t].pc]]

\* AutoSaveManager.stop_periodic_save, auto_save.py:115-124
stop_periodic_save(ms, i, ts) ==
    IF ms[i].periodic_task = None
    THEN [managers |-> ms, tasks |-> ts]
    ELSE LET c == cancel_task(ms, ts, ms[i].periodic_task[1])
         IN  [managers |-> [c.managers EXCEPT ![i].periodic_task = None],
              tasks |-> c.tasks]

\* the trigger_save that undo, redo and restore run after replacing df,
\* csv_session.py:228-230, 263-265, 318-320
AfterOperationSave(data, io_ok) ==
    IF should_save_after_operation(managers[auto_save_manager])
    THEN trigger_save_now(managers, auto_save_manager, files, data, io_ok)
    ELSE [managers |-> managers, files |-> files, success |-> FALSE,
          error |-> "", save_path |-> None]

\* a successful save needs room in the bounded save_count
SaveRoom(io_ok) ==
    io_ok => managers[auto_save_manager].save_count < MaxSaves

Result(call, success, error) ==
    [call |-> call, success |-> success, error |-> error]

NoRun == [ok |-> FALSE, d0 |-> 0, edits |-> 0, undos |-> 0]
NoTrim == [appended_index |-> -1, appended_len |-> 0, past |-> {}]

(***************************************************************************)
(* Part 1: the handlers of one CSVSession.                                 *)
(***************************************************************************)
AutoSaveUnchanged == UNCHANGED <<managers, auto_save_manager, files, tasks>>
ClockDirUnchanged ==
    UNCHANGED <<now, sessions, sessions_to_cleanup, nsessions>>

\* CSVSession.update_access_time, csv_session.py:54-56; last_accessed of a
\* session is kept in its entry of the directory
update_access_time(ss, id) ==
    IF id \in DOMAIN ss THEN [ss EXCEPT ![id].last_accessed = now] ELSE ss

\* CSVSession.record_operation, csv_session.py:93-116, after df was replaced
\* by new_df (new_df is never None at a call site).  operation_id is what
\* add_operation makes of the clock (history_manager.py:197-198); the
\* history is written through at the end of add_operation (226-234).
record_operation(operation_id, operation_type, new_df, prev) ==
    LET r == add_operation(HM, nrec + 1, operation_id, operation_type,
                           new_df, prev)
    IN  /\ nrec < MaxRecords
        /\ history' = r.history
        /\ current_index' = r.current_index
        /\ redo_stack' = r.redo_stack
        /\ history_files' =
              _save_history(remove_snapshot_file(history_files, storage_type,
                                                 r.removed),
                            storage_type, r.history, r.current_index)
        /\ UNCHANGED storage_type
        /\ nrec' = nrec + 1
        /\ needs_autosave' = TRUE
        /\ sessions' = update_access_time(sessions, SID)
        /\ UNCHANGED <<now, sessions_to_cleanup, nsessions>>
        /\ trim' = [appended_index |-> r.appended_index,
                    appended_len |-> r.appended_len,
                    past |-> {history[i].uid :
                                i \in (current_index + 2)..Len(history)}]

\* The dataset a load reads or a tool computes.  Every load and every edit
\* yields a dataset different from all earlier ones (the case in which no two
\* states of the session can be confused); it is named by the ordinal of the
\* operation that produced it.
NewData == nrec + 1

\* CSVSession.load_data, csv_session.py:62-72 (io_operations.py:86,158,221),
\* called when the clock reads operation_id
LoadDataAt(path, operation_id) ==
    /\ df' = Some(NewData)
    /\ file_path' = path
    /\ record_operation(operation_id, "load", Some(NewData), df)
    /\ managers' = IF path # None
                   THEN [managers EXCEPT
                           ![auto_save_manager].original_file_path = path]
                   ELSE managers
    /\ UNCHANGED <<auto_save_manager, files, tasks>>
    /\ result' = Result("load", TRUE, "")
    /\ prev_call' = result.call
    /\ saved' = None
    /\ run' = [ok |-> TRUE, d0 |-> NewData, edits |-> 0, undos |-> 0]

\* a load at a clock reading later than that of every earlier operation: the
\* operation_id is new, and is named by the ordinal of the operation
LoadData(path) == LoadDataAt(path, nrec + 1)

\* a transformation tool: session.df = ...; session.record_operation(...)
\* (transformations.py:98-99 and the like), called when the clock reads
\* operation_id.  Tools refuse a session without data.
EditAt(operation_id) ==
    /\ df # None
    /\ df' = Some(NewData)
    /\ UNCHANGED file_path
    /\ record_operation(operation_id, "edit", Some(NewData), df)
    /\ AutoSaveUnchanged
    /\ result' = Result("edit", TRUE, "")
    /\ prev_call' = result.call
    /\ saved' = None
    /\ run' = IF run.ok /\ run.undos = 0
              THEN [run EXCEPT !.edits = @ + 1] ELSE NoRun

\* an edit at a clock reading later than that of every earlier operation
Edit == EditAt(nrec + 1)

\* CSVSession.undo, csv_session.py:214-247
Undo(io_ok) ==
    /\ prev_call' = result.call
    /\ saved' = Some([df |-> df, current_index |-> current_index,
                      redo_stack |-> redo_stack])
    /\ run' = IF run.ok /\ run.edits >= 1 /\ run.undos < run.edits
              THEN [run EXCEPT !.undos = @ + 1] ELSE NoRun
    /\ trim' = NoTrim
    /\ UNCHANGED <<file_path, history, nrec, storage_type, needs_autosave,
                   auto_save_manager, tasks>>
    /\ ClockDirUnchanged
    /\ IF ~can_undo(HM)
       THEN /\ result' = Result("undo", FALSE, "No operations to undo")
            /\ io_ok
            /\ UNCHANGED <<df, current_index, redo_stack, history_files,
                           managers, files>>
       ELSE LET r == undo(HM)
                s == AfterOperationSave(r.snapshot, io_ok)
            IN  /\ current_index' = r.current_index
                /\ redo_stack' = r.redo_stack
                /\ history_files' = _save_history(history_files, storage_type,
                                                  r.history, r.current_index)
                /\ IF r.snapshot # None
                   THEN /\ df' = r.snapshot
                        /\ SaveRoom(io_ok)
                        /\ managers' = s.managers
                        /\ files' = s.files
                        /\ result' = Result("undo", TRUE, "")
                   ELSE /\ io_ok
                        /\ UNCHANGED <<df, managers, files>>
                        /\ result' = Result("undo", FALSE,
                                            "No snapshot available for undo")

\* CSVSession.redo, csv_session.py:249-282
Redo(io_ok) ==
    /\ prev_call' = result.call
    /\ saved' = IF result.call = "undo" THEN saved ELSE None
    /\ run' = NoRun
    /\ trim' = NoTrim
    /\ UNCHANGED <<file_path, history, nrec, storage_type, needs_autosave,
                   auto_save_manager, tasks>>
    /\ ClockDirUnchanged
    /\ IF ~can_redo(HM)
       THEN /\ result' = Result("redo", FALSE, "No operations to redo")
            /\ io_ok
            /\ UNCHANGED <<df, current_index, redo_stack, history_files,
                           managers, files>>
       ELSE LET r == redo(HM)
                s == AfterOperationSave(r.snapshot, io_ok)
            IN  /\ current_index' = r.current_index
                /\ redo_stack' = r.redo_stack
                /\ history_files' = _save_history(history_files, storage_type,
                                                  r.history, r.current_index)
                /\ IF r.snapshot # None
                   THEN /\ df' = r.snapshot
                        /\ SaveRoom(io_ok)
                        /\ managers' = s.managers
                        /\ files' = s.files
                        /\ result' = Result("redo", TRUE, "")
                   ELSE /\ io_ok
                        /\ UNCHANGED <<df, managers, files>>
                        /\ result' = Result("redo", FALSE,
                                            "No snapshot available for redo")

\* CSVSession.restore_to_operation, csv_session.py:307-335
RestoreToOperation(operation_id, io_ok) ==
    LET r == restore_to_operation(HM, operation_id)
        s == AfterOperationSave(r.snapshot, io_ok)
    IN  /\ prev_call' = result.call
        /\ saved' = Some([operation_id |-> operation_id])
        /\ run' = NoRun
        /\ trim' = NoTrim
        /\ UNCHANGED <<file_path, history, nrec, storage_type, needs_autosave,
                       auto_save_manager, tasks>>
        /\ ClockDirUnchanged
        /\ current_index' = r.current_index
        /\ redo_stack' = r.redo_stack
        /\ history_files' =
              IF r.snapshot # None
              THEN _save_history(history_files, storage_type,
                                 r.history, r.current_index)
              ELSE history_files
        /\ IF r.snapshot # None
           THEN /\ df' = r.snapshot
                /\ SaveRoom(io_ok)
                /\ managers' = s.managers
                /\ files' = s.files
                /\ result' = Result("restore", TRUE, "")
           ELSE /\ io_ok
                /\ UNCHANGED <<df, managers, files>>
                /\ result' = Result("restore", FALSE, "Could not restore")

\* HistoryManager.clear_history, history_manager.py:356-376
clear_history ==
    /\ history' = <<>>
    /\ redo_stack' = <<>>
    /\ current_index' = -1
    /\ history_files' = IF storage_type # "memory"
                        THEN remove_history_files(history_files)
                        ELSE history_files
    /\ UNCHANGED storage_type

\* CSVSession.clear, csv_session.py:337-349
clear ==
    LET r == stop_periodic_save(managers, auto_save_manager, tasks)
    IN  /\ managers' = r.managers
        /\ tasks' = r.tasks
        /\ clear_history
        /\ df' = None
        /\ needs_autosave' = FALSE
        /\ UNCHANGED <<nrec, file_path, auto_save_manager, files>>

\* session.clear() called on the session
Clear ==
    /\ clear
    /\ ClockDirUnchanged
    /\ result' = Result("clear", TRUE, "")
    /\ prev_call' = result.call
    /\ saved' = Some([history_files |-> history_files])
    /\ run' = NoRun
    /\ trim' = NoTrim

FilePaths == {None, Some("P")}

\* CSVSession.__init__, csv_session.py:22-52; history_manager.py:89-97: a
\* session with a new id, for which history_dir holds no file
InitSessionStored(config, history_storage) ==
    /\ df = None
    /\ file_path = None
    /\ history = <<>>
    /\ current_index = -1
    /\ redo_stack = <<>>
    /\ nrec = 0
    /\ storage_type = history_storage
    /\ history_files = NoHistoryFiles
    /\ needs_autosave = FALSE
    /\ now = 0
    /\ sessions = (SID :> [last_accessed |-> 0])
    /\ sessions_to_cleanup = {}
    /\ nsessions = 1
    /\ managers = <<AutoSaveManager(config, None)>>
    /\ auto_save_manager = 1
    /\ files = {}
    /\ tasks = <<>>
    /\ result = Result("init", TRUE, "")
    /\ prev_call = "init"
    /\ saved = None
    /\ run = NoRun
    /\ trim = NoTrim

\* CSVSession(history_storage=HistoryStorage.MEMORY)
InitSession(config) == InitSessionStored(config, "memory")

\* a session constructed with auto_save_config = AutoSaveConfig(enabled=False)
Init == InitSession(AutoSaveConfig(FALSE, "after_operation", "overwrite"))

Next ==
    \/ \E fp \in FilePaths : LoadData(fp)
    \/ Edit
    \/ \E io_ok \in BOOLEAN : Undo(io_ok)
    \/ \E io_ok \in BOOLEAN : Redo(io_ok)
    \/ \E id \in 1..MaxRecords, io_ok \in BOOLEAN : RestoreToOperation(id, io_ok)
    \/ Clear

Spec == Init /\ [][Next]_vars

(***************************************************************************)
(* Part 2: the asyncio tasks of one session.                               *)
(*                                                                         *)
(* A task is a periodic loop (_periodic_save_loop) or a foreground call of *)
(* trigger_save.  Tasks run on one event loop: a step runs from one        *)
(* suspension point to the next.  The suspension points are the sleep of   *)
(* the loop (auto_save.py:130), a contended acquire of the manager's lock  *)
(* (auto_save.py:139) and the awaited writer, the save_callback parameter  *)
(* of trigger_save (auto_save.py:145).  The uncontended acquire and        *)
(* _get_save_path do not suspend, so a task that enters trigger_save with  *)
(* the lock free is at the awaited writer with its path resolved at the    *)
(* end of the same step.                                                   *)
(*   pc = "sleep"   : periodic loop in asyncio.sleep                       *)
(*   pc = "waiting" : queued on the lock of its manager                    *)
(*   pc = "writing" : holds the lock, path resolved, writer not finished   *)
(*   pc = "done"    : returned or cancelled                                *)
(* cancelled is the pc at which the task was cancelled, failed tells that  *)
(* the last trigger_save of a periodic loop returned success False.        *)
(***************************************************************************)
Task(kind, manager, trigger, pc) ==
    [kind |-> kind, manager |-> manager, trigger |-> trigger, pc |-> pc,
     save_path |-> None, cancelled |-> "no", failed |-> FALSE]

\* _periodic_save_loop after trigger_save returned, auto_save.py:128-135: the
\* loop goes on to the next sleep whatever the result; a foreground call
\* returns to its caller
loop_ends_on_failure(task, success) ==
    IF task.kind = "periodic" /\ success THEN "sleep" ELSE "done"
after_trigger_save(task, success) ==
    IF task.kind = "periodic" THEN "sleep" ELSE "done"

SessionUnchanged ==
    UNCHANGED <<df, file_path, history, current_index, redo_stack, nrec,
                storage_type, history_files,
                needs_autosave, now, sessions, sessions_to_cleanup, nsessions,
                result, prev_call, saved, run, trim>>
\* the same for a call that returns a result dict to the caller
DataUnchanged ==
    UNCHANGED <<df, file_path, history, current_index, redo_stack, nrec,
                storage_type, history_files,
                needs_autosave, now, sessions, sessions_to_cleanup, nsessions,
                run, trim>>

\* trigger_save up to the awaited writer, auto_save.py:139-145, entered by
\* task t on manager ts[t].manager
enter_trigger_save(ms, ts, t) ==
    LET i == ts[t].manager
    IN  IF ms[i].lock = 0 /\ ms[i].waiters = <<>>
        THEN [managers |-> [ms EXCEPT ![i].lock = t],
              tasks |-> [ts EXCEPT ![t].pc = "writing",
                                   ![t].save_path = Some(_get_save_path(ms[i]))]]
        ELSE [managers |-> [ms EXCEPT ![i].waiters = Append(@, t)],
              tasks |-> [ts EXCEPT ![t].pc = "waiting"]]

\* AutoSaveManager.start_periodic_save, auto_save.py:107-113
start_periodic_save(ms, i, ts) ==
    IF ms[i].config.mode \in {"periodic", "hybrid"}
    THEN [managers |-> [ms EXCEPT ![i].periodic_task = Some(Len(ts) + 1)],
          tasks |-> Append(ts, Task("periodic", i, "periodic", "sleep"))]
    ELSE [managers |-> ms, tasks |-> ts]

\* The manager that enable_auto_save replaces loses its last reference
\* unless a task still runs on it; of an unreferenced manager only its
\* strategy and the number of saves it made are kept.
Referenced(ms, ts, i) ==
    \E t \in 1..Len(ts) : ts[t].manager = i /\ ts[t].pc # "done"
Unreferenced(m) ==
    [config |-> AutoSaveConfig(FALSE, "disabled", m.config.strategy),
     original_file_path |-> None, last_save |-> 0,
     save_count |-> m.save_count, periodic_task |-> None,
     lock |-> 0, waiters |-> <<>>]
Replace(ms, ts, i) ==
    IF Referenced(ms, ts, i) THEN ms
    ELSE [ms EXCEPT ![i] = Unreferenced(ms[i])]

\* get_status()["periodic_active"], auto_save.py:248
periodic_active(m, ts) ==
    m.periodic_task # None /\ ts[m.periodic_task[1]].pc # "done"

\* CSVSession.enable_auto_save, csv_session.py:174-195
EnableAutoSave(config) ==
    LET ms == Append(Replace(managers, tasks, auto_save_manager),
                     AutoSaveManager(config, file_path))
        i  == Len(ms)
        r  == IF config.enabled
              THEN start_periodic_save(ms, i, tasks)
              ELSE [managers |-> ms, tasks |-> tasks]
    IN  /\ Len(managers) < MaxManagers
        /\ Len(r.tasks) <= MaxTasks
        /\ managers' = r.managers
        /\ auto_save_manager' = i
        /\ tasks' = r.tasks
        /\ UNCHANGED files
        /\ DataUnchanged
        /\ result' = Result("enable_auto_save", TRUE, "")
        /\ prev_call' = result.call
        /\ saved' = None

\* CSVSession.disable_auto_save, csv_session.py:197-204
DisableAutoSave ==
    LET r == stop_periodic_save(managers, auto_save_manager, tasks)
    IN  /\ managers' = [r.managers EXCEPT
                          ![auto_save_manager].config.enabled = FALSE]
        /\ tasks' = r.tasks
        /\ UNCHANGED <<auto_save_manager, files>>
        /\ DataUnchanged
        /\ result' = Result("disable_auto_save", TRUE, "")
        /\ prev_call' = result.call
        /\ saved' = None

\* session.auto_save_manager.start_periodic_save(session._save_callback),
\* called directly as in tests/test_auto_save.py:207,235,365
StartPeriodicSave ==
    LET r == start_periodic_save(managers, auto_save_manager, tasks)
    IN  /\ Len(tasks) < MaxTasks
        /\ managers' = r.managers
        /\ tasks' = r.tasks
        /\ UNCHANGED <<auto_save_manager, files>>
        /\ SessionUnchanged

\* CSVSession.manual_save, csv_session.py:210-212: a foreground call of
\* trigger_save on the session's current manager
ManualSave ==
    LET ts == Append(tasks, Task("call", auto_save_manager, "manual", "sleep"))
        r  == enter_trigger_save(managers, ts, Len(ts))
    IN  /\ Len(tasks) < MaxTasks
        /\ managers' = r.managers
        /\ tasks' = r.tasks
        /\ UNCHANGED <<auto_save_manager, files>>
        /\ SessionUnchanged

\* _periodic_save_loop: the sleep ends and the loop calls trigger_save,
\* auto_save.py:130-131
Tick(t) ==
    LET r == enter_trigger_save(managers, tasks, t)
    IN  /\ tasks[t].kind = "periodic"
        /\ tasks[t].pc = "sleep"
        /\ managers' = r.managers
        /\ tasks' = r.tasks
        /\ UNCHANGED <<auto_save_manager, files>>
        /\ SessionUnchanged

\* asyncio.Lock: the released lock goes to the first task of the queue
Wake(t) ==
    LET i == tasks[t].manager
    IN  /\ tasks[t].pc = "waiting"
        /\ managers[i].lock = 0
        /\ Head(managers[i].waiters) = t
        /\ managers' = [managers EXCEPT ![i].lock = t, ![i].waiters = Tail(@)]
        /\ tasks' = [tasks EXCEPT
                       ![t].pc = "writing",
                       ![t].save_path = Some(_get_save_path(managers[i]))]
        /\ UNCHANGED <<auto_save_manager, files>>
        /\ SessionUnchanged

\* the awaited writer finishes and trigger_save returns, auto_save.py:145-178
\* with csv_session.py:127-157; io_ok = FALSE: the write raised
WriteDone(t, io_ok) ==
    LET i == tasks[t].manager
        success == _save_callback(df, io_ok).success
    IN  /\ tasks[t].pc = "writing"
        /\ success => managers[i].save_count < MaxSaves
        /\ managers' = [managers EXCEPT
                          ![i].lock = 0,
                          ![i].save_count = save_count_after(managers[i], success),
                          ![i].last_save = IF success THEN now ELSE @]
        /\ files' = IF ~success THEN files
                    ELSE LET w == WriteFile(files, tasks[t].save_path[1],
                                            df[1], SumSaves(managers) + 1)
                         IN  IF managers[i].config.strategy
                                    \in {"backup", "versioned"}
                             THEN _cleanup_old_backups(w) ELSE w
        /\ tasks' = [tasks EXCEPT
                       ![t].pc = after_trigger_save(tasks[t], success),
                       ![t].failed = tasks[t].kind = "periodic" /\ ~success,
                       ![t].save_path = None]
        /\ UNCHANGED auto_save_manager
        /\ SessionUnchanged

\* del self.sessions[session_id], csv_session.py:391
del_nothing(ss, id) == ss
del_session(ss, id) == [j \in DOMAIN ss \ {id} |-> ss[j]]

\* SessionManager.remove_session, csv_session.py:387-394.  The sessions
\* other than SID are never loaded and never start a task, their clear()
\* finds nothing to stop or to empty.
RemoveSession(id) ==
    /\ IF id \in DOMAIN sessions
       THEN /\ IF id = SID
               THEN clear
               ELSE UNCHANGED <<managers, tasks, history, redo_stack,
                                current_index, df, needs_autosave, nrec,
                                file_path, auto_save_manager, files,
                                storage_type, history_files>>
            /\ sessions' = del_session(sessions, id)
            /\ result' = Result("remove", TRUE, "")
       ELSE /\ UNCHANGED <<managers, tasks, history, redo_stack,
                           current_index, df, needs_autosave, nrec,
                           file_path, auto_save_manager, files, sessions,
                           storage_type, history_files>>
            /\ result' = Result("remove", FALSE, "")
    /\ UNCHANGED <<now, sessions_to_cleanup, nsessions>>
    /\ prev_call' = result.call
    /\ saved' = Some([id |-> id, sessions |-> sessions,
                      history_files |-> history_files])
    /\ run' = NoRun
    /\ trim' = NoTrim

\* the tools reach the session through SessionManager.get_session
\* (csv_session.py:376-385), which needs it in the directory
Live == SID \in DOMAIN sessions

\* the configurations a session is constructed with in this part:
\* AutoSaveConfig() and a periodic one (tests/test_auto_save.py:195-204)
InitConfigs ==
    {DefaultConfig, AutoSaveConfig(TRUE, "periodic", "overwrite")}
\* the configurations passed to enable_auto_save
EnableConfigs ==
    {AutoSaveConfig(e, m, "overwrite") :
        e \in BOOLEAN, m \in {"after_operation", "periodic", "hybrid"}}

\* in this part the session's dataset is loaded once
FirstLoad(path) == nrec = 0 /\ LoadData(path)

SaveInit == \E config \in InitConfigs : InitSession(config)

SaveNext ==
    \/ \E fp \in FilePaths : Live /\ FirstLoad(fp)
    \/ \E config \in EnableConfigs : Live /\ EnableAutoSave(config)
    \/ Live /\ DisableAutoSave
    \/ Live /\ StartPeriodicSave
    \/ Live /\ ManualSave
    \/ RemoveSession(SID)
    \/ \E t \in 1..Len(tasks) : Tick(t)
    \/ \E t \in 1..Len(tasks) : Wake(t)
    \/ \E t \in 1..Len(tasks), io_ok \in BOOLEAN : WriteDone(t, io_ok)

SaveSpec == SaveInit /\ [][SaveNext]_vars

(***************************************************************************)
(* Part 3: the lock of one AutoSaveManager under cancellation.             *)
(*                                                                         *)
(* One manager with a periodic mode; loops are started, tick, are          *)
(* cancelled by disable_auto_save, and manual saves compete for the lock.  *)
(* The event loop runs every task that is ready (a waiter whose lock was   *)
(* handed over), and a write that was started returns: weak fairness of    *)
(* Wake and WriteDone for every task.                                      *)
(***************************************************************************)
LockInit == InitSession(AutoSaveConfig(TRUE, "hybrid", "overwrite"))

LockNext ==
    \/ \E fp \in FilePaths : FirstLoad(fp)
    \/ StartPeriodicSave
    \/ ManualSave
    \/ DisableAutoSave
    \/ \E t \in 1..Len(tasks) : Tick(t)
    \/ \E t \in 1..Len(tasks) : Wake(t)
    \/ \E t \in 1..Len(tasks), io_ok \in BOOLEAN : WriteDone(t, io_ok)

LockFairness ==
    \A t \in 1..MaxTasks :
        /\ WF_vars(t <= Len(tasks) /\ Wake(t))
        /\ WF_vars(t <= Len(tasks) /\ \E io_ok \in BOOLEAN : WriteDone(t, io_ok))

LockSpec == LockInit /\ [][LockNext]_vars /\ LockFairness

\* The same, and every sleep of a loop ends after interval_seconds
\* (auto_save.py:130): weak fairness of Tick as well.
LoopFairness ==
    \A t \in 1..MaxTasks : WF_vars(t <= Len(tasks) /\ Tick(t))

LoopSpec == LockInit /\ [][LockNext]_vars /\ LockFairness /\ LoopFairness

(***************************************************************************)
(* Part 4: the durability scheduler driven by edits.                       *)
(*                                                                         *)
(* The session is edited and trigger_auto_save_if_needed is called after   *)
(* edits, as the examples and tests do.  No task is running in this part:  *)
(* every trigger_save finds the lock free and runs to its end within the   *)
(* call.  The clock advances between calls.                                *)
(***************************************************************************)
\* what a call captures on entry, for the properties
Entry ==
    [df |-> df, history |-> history, current_index |-> current_index,
     needs_autosave |-> needs_autosave, files |-> files,
     manager |-> managers[auto_save_manager], nsaves |-> SumSaves(managers)]

\* csv_session.py:122-123: the flag after trigger_save returned
cleared_after_attempt(owed, success) == FALSE
needs_autosave_after(owed, success) == IF success THEN FALSE ELSE owed

\* CSVSession.trigger_auto_save_if_needed, csv_session.py:118-125.
\* returned = None: the call returned None.
TriggerAutoSaveIfNeeded(io_ok) ==
    LET m == managers[auto_save_manager]
        s == trigger_save_now(managers, auto_save_manager, files, df, io_ok)
    IN  /\ prev_call' = result.call
        /\ saved' = Some(Entry)
        /\ run' = NoRun
        /\ trim' = NoTrim
        /\ UNCHANGED <<df, file_path, history, current_index, redo_stack,
                       nrec, storage_type, history_files,
                       auto_save_manager, tasks>>
        /\ ClockDirUnchanged
        /\ IF should_save_after_operation(m) /\ needs_autosave
           THEN /\ s.success => SumSaves(managers) < MaxWrites
                /\ managers' = s.managers
                /\ files' = s.files
                /\ needs_autosave' =
                      needs_autosave_after(needs_autosave, s.success)
                /\ result' = [call |-> "trigger", success |-> s.success,
                              error |-> s.error,
                              returned |-> Some(s.success),
                              save_path |-> s.save_path]
           ELSE /\ io_ok
                /\ UNCHANGED <<managers, files, needs_autosave>>
                /\ result' = [call |-> "trigger", success |-> FALSE,
                              error |-> "", returned |-> None,
                              save_path |-> None]

\* datetime.utcnow() moves on by one unit between two calls
Advance(limit) ==
    /\ now < limit
    /\ now' = now + 1
    /\ UNCHANGED <<df, file_path, history, current_index, redo_stack, nrec,
                   storage_type, history_files,
                   needs_autosave, sessions, sessions_to_cleanup, nsessions,
                   managers, auto_save_manager, files, tasks,
                   result, prev_call, saved, run, trim>>

\* the configurations a session is constructed with in this part
\* (the constructor starts no periodic loop, csv_session.py:42-43)
DurInitConfigs ==
    {AutoSaveConfig(e, "after_operation", st) :
        e \in BOOLEAN, st \in {"overwrite", "backup", "versioned"}}
    \cup {AutoSaveConfig(e, m, "overwrite") :
            e \in BOOLEAN, m \in {"hybrid", "periodic"}}
\* the configurations passed to enable_auto_save in this part (modes that
\* start no periodic loop; "disabled" is the default of from_dict)
DurEnableConfigs ==
    {AutoSaveConfig(TRUE, "after_operation", st) :
        st \in {"overwrite", "backup", "versioned"}}
    \cup {AutoSaveConfig(TRUE, "disabled", "backup")}

DurInit == \E config \in DurInitConfigs : InitSession(config)

DurNext ==
    \/ \E fp \in FilePaths : FirstLoad(fp)
    \/ nrec < MaxEdits /\ Edit
    \/ \E io_ok \in BOOLEAN : TriggerAutoSaveIfNeeded(io_ok)
    \/ \E config \in DurEnableConfigs : EnableAutoSave(config)
    \/ DisableAutoSave
    \/ Advance(MaxSeconds)

DurSpec == DurInit /\ [][DurNext]_vars

\* The same scheduler on a session that is loaded again and again: from the
\* files P and Q (load_csv, io_operations.py:86) and from content, which has
\* no path (load_csv_from_content, io_operations.py:221).
ReloadPaths == FilePaths \cup {Some("Q")}

ReloadInit == InitSession(DefaultConfig)

ReloadNext ==
    \/ \E fp \in ReloadPaths : nrec < MaxEdits /\ LoadData(fp)
    \/ nrec < MaxEdits /\ Edit
    \/ \E io_ok \in BOOLEAN : TriggerAutoSaveIfNeeded(io_ok)
    \/ EnableAutoSave(DefaultConfig)

ReloadSpec == ReloadInit /\ [][ReloadNext]_vars

(***************************************************************************)
(* Part 5: the SessionManager directory.                                   *)
(*                                                                         *)
(* Sessions are created, looked up, swept and removed while the clock      *)
(* advances.  A session id is the ordinal of its creation (uuid4 never     *)
(* repeats an id).  Session SID exists from the start; no tool acts on a   *)
(* session in this part, so every session is empty and has no task.        *)
(***************************************************************************)
\* CSVSession.is_expired, csv_session.py:58-60
is_expired_at_ttl(ss, id) == now - ss[id].last_accessed >= ttl
is_expired(ss, id) == now - ss[id].last_accessed > ttl

DetailUnchanged ==
    UNCHANGED <<df, file_path, history, current_index, redo_stack, nrec,
                storage_type, history_files,
                needs_autosave, managers, auto_save_manager, files, tasks>>

\* SessionManager._cleanup_expired, csv_session.py:401-406
_cleanup_expired(ss, marked) ==
    marked \cup {id \in DOMAIN ss : is_expired(ss, id)}

\* min(self.sessions.values(), key=last_accessed), csv_session.py:368: the
\* first of the least recently accessed sessions in insertion order
MostRecentSession(ss) ==
    CHOOSE id \in DOMAIN ss :
        \A j \in DOMAIN ss : ss[id].last_accessed >= ss[j].last_accessed
OldestSession(ss) ==
    LET L == {id \in DOMAIN ss :
                \A j \in DOMAIN ss : ss[id].last_accessed <= ss[j].last_accessed}
    IN  CHOOSE id \in L : \A j \in L : id <= j

\* SessionManager.create_session, csv_session.py:362-374
CreateSession ==
    LET id   == nsessions + 1
        kept == IF Cardinality(DOMAIN sessions) >= max_sessions
                THEN DOMAIN sessions \ {OldestSession(sessions)}
                ELSE DOMAIN sessions
    IN  /\ nsessions < MaxCreated
        /\ sessions_to_cleanup' = _cleanup_expired(sessions, sessions_to_cleanup)
        /\ sessions' = [j \in kept \cup {id} |->
                          IF j = id THEN [last_accessed |-> now]
                                    ELSE sessions[j]]
        /\ nsessions' = id
        /\ UNCHANGED now
        /\ DetailUnchanged
        /\ result' = [call |-> "create", success |-> TRUE, error |-> "",
                      returned |-> Some(id)]
        /\ prev_call' = result.call
        /\ saved' = Some([sessions |-> sessions])
        /\ run' = NoRun
        /\ trim' = NoTrim

\* SessionManager.get_session, csv_session.py:376-385
GetSession(id) ==
    /\ IF id \in DOMAIN sessions /\ ~is_expired(sessions, id)
       THEN /\ sessions' = update_access_time(sessions, id)
            /\ UNCHANGED sessions_to_cleanup
            /\ result' = [call |-> "get", success |-> TRUE, error |-> "",
                          returned |-> Some(id)]
       ELSE /\ sessions_to_cleanup' =
                    IF id \in DOMAIN sessions /\ is_expired(sessions, id)
                    THEN sessions_to_cleanup \cup {id}
                    ELSE sessions_to_cleanup
            /\ UNCHANGED sessions
            /\ result' = [call |-> "get", success |-> FALSE, error |-> "",
                          returned |-> None]
    /\ UNCHANGED <<now, nsessions>>
    /\ DetailUnchanged
    /\ prev_call' = result.call
    /\ saved' = Some([id |-> id, sessions |-> sessions,
                      sessions_to_cleanup |-> sessions_to_cleanup,
                      now |-> now])
    /\ run' = NoRun
    /\ trim' = NoTrim

\* SessionManager.list_sessions, csv_session.py:396-399: the sweep
ListSessions ==
    /\ sessions_to_cleanup' = _cleanup_expired(sessions, sessions_to_cleanup)
    /\ UNCHANGED <<now, sessions, nsessions>>
    /\ DetailUnchanged
    /\ result' = Result("list", TRUE, "")
    /\ prev_call' = result.call
    /\ saved' = Some([sessions_to_cleanup |-> sessions_to_cleanup,
                      expired |-> {id \in DOMAIN sessions :
                                      is_expired(sessions, id)}])
    /\ run' = NoRun
    /\ trim' = NoTrim

\* SessionManager.cleanup_marked_sessions, csv_session.py:408-412
CleanupMarkedSessions ==
    /\ IF SID \in sessions_to_cleanup \cap DOMAIN sessions
       THEN clear
       ELSE DetailUnchanged
    /\ sessions' = [j \in DOMAIN sessions \ sessions_to_cleanup |-> sessions[j]]
    /\ sessions_to_cleanup' = {}
    /\ UNCHANGED <<now, nsessions>>
    /\ result' = Result("cleanup", TRUE, "")
    /\ prev_call' = result.call
    /\ saved' = Some([sessions |-> sessions,
                      sessions_to_cleanup |-> sessions_to_cleanup,
                      swept |-> IF result.call = "list"
                                THEN saved[1].expired ELSE {}])
    /\ run' = NoRun
    /\ trim' = NoTrim

DirInit == InitSession(DefaultConfig)

DirNext ==
    \/ CreateSession
    \/ \E id \in 1..MaxCreated : GetSession(id)
    \/ \E id \in 1..MaxCreated : RemoveSession(id)
    \/ ListSessions
    \/ CleanupMarkedSessions
    \/ Advance(MaxClock)

DirSpec == DirInit /\ [][DirNext]_vars

(***************************************************************************)
(* Part 6: the sweep of a session that runs periodic loops.                *)
(*                                                                         *)
(* Session SID is loaded, its auto-save is configured, its loops are       *)
(* started and tick, the clock advances, and the directory is swept and    *)
(* cleaned up.  The handler that loads works on the session object it got  *)
(* from get_or_create_session before its awaits                            *)
(* (tools/io_operations.py:62-86): the sweep can run, and the clock can    *)
(* pass the ttl, between that lookup and load_data.                        *)
(***************************************************************************)
SweepConfigs ==
    {AutoSaveConfig(TRUE, m, "overwrite") : m \in {"after_operation", "periodic"}}

SweepInit == \E config \in InitConfigs : InitSession(config)

SweepNext ==
    \/ \E fp \in FilePaths : Live /\ FirstLoad(fp)
    \/ \E config \in SweepConfigs : Live /\ EnableAutoSave(config)
    \/ Live /\ StartPeriodicSave
    \/ \E t \in 1..Len(tasks) : Tick(t)
    \/ \E t \in 1..Len(tasks) : Wake(t)
    \/ \E t \in 1..Len(tasks), io_ok \in BOOLEAN : WriteDone(t, io_ok)
    \/ GetSession(SID)
    \/ ListSessions
    \/ CleanupMarkedSessions
    \/ Advance(MaxClock)

SweepSpec == SweepInit /\ [][SweepNext]_vars

\* The same session while other sessions are created: create_session at
\* capacity takes the least recently accessed session out of the directory.
EvictNext ==
    \/ \E fp \in FilePaths : Live /\ FirstLoad(fp)
    \/ \E config \in SweepConfigs : Live /\ EnableAutoSave(config)
    \/ \E t \in 1..Len(tasks) : Tick(t)
    \/ \E t \in 1..Len(tasks), io_ok \in BOOLEAN : WriteDone(t, io_ok)
    \/ CreateSession
    \/ Advance(MaxClock)

EvictSpec == SweepInit /\ [][EvictNext]_vars

(***************************************************************************)
(* Part 7: the persisted history.                                          *)
(*                                                                         *)
(* The session is constructed with history_storage JSON or PICKLE, is      *)
(* loaded, edited, undone, redone, restored and cleared, and a new session *)
(* is constructed with the same id and history_dir                         *)
(* (examples/history_demo.py:269-273), whose HistoryManager loads what the *)
(* earlier one wrote.                                                      *)
(***************************************************************************)
\* what the files would have to hold for the load to be the plain one: a
\* history file that is there and readable, readable entries, and a readable
\* snapshot file for every entry that has_snapshot
Damaged(fs) ==
    \/ fs.log = None
    \/ ~fs.log[1].readable
    \/ storage_type = "json" /\
          \E i \in 1..Len(fs.log[1].history) :
              LET d == fs.log[1].history[i]
              IN  \/ unreadable(fs, d)
                  \/ d.has_snapshot /\ snapshot_file(fs, d) = {}

\* CSVSession(session_id=..., history_storage=...) constructed again,
\* csv_session.py:22-52 with history_manager.py:94-97
Reopen ==
    LET l == _load_history(history_files, storage_type)
    IN  /\ history' = l.history
        /\ current_index' = l.current_index
        /\ redo_stack' = <<>>
        /\ df' = None
        /\ file_path' = None
        /\ needs_autosave' = FALSE
        /\ managers' = <<AutoSaveManager(managers[auto_save_manager].config,
                                         None)>>
        /\ auto_save_manager' = 1
        /\ UNCHANGED <<nrec, storage_type, history_files, files, tasks>>
        /\ ClockDirUnchanged
        /\ result' = Result("reopen", TRUE, "")
        /\ prev_call' = result.call
        /\ saved' = Some([history |-> history, current_index |-> current_index,
                          damaged |-> Damaged(history_files)])
        /\ run' = NoRun
        /\ trim' = NoTrim

PersistInit ==
    \E history_storage \in {"json", "pickle"} :
        InitSessionStored(AutoSaveConfig(FALSE, "after_operation", "overwrite"),
                          history_storage)

\* Auto-save is disabled in this part: undo, redo and restore attempt no
\* write of the dataset.  The dataset is loaded into a session that has none.
PersistNext ==
    \/ Live /\ nrec < MaxPersisted /\ df = None /\ LoadData(None)
    \/ Live /\ nrec < MaxPersisted /\ Edit
    \/ Live /\ Undo(TRUE)
    \/ Live /\ Redo(TRUE)
    \/ \E id \in 1..MaxPersisted : Live /\ RestoreToOperation(id, TRUE)
    \/ Live /\ Clear
    \/ Live /\ RemoveSession(SID)
    \/ Reopen

PersistSpec == PersistInit /\ [][PersistNext]_vars

\* What can happen to the files of history_dir between two runs: the history
\* file or a snapshot file is deleted or its content is damaged, an entry of
\* the history file is damaged.  The session in memory is not touched.  One
\* fault at a time: the next fault comes after the files were written anew.
HistoryFilesIntact ==
    /\ storage_type = "json"
    /\ ~Damaged(history_files)

FilesOnly(fs) ==
    /\ fs # history_files
    /\ history_files' = fs
    /\ UNCHANGED <<df, file_path, history, current_index, redo_stack, nrec,
                   storage_type, needs_autosave, managers, auto_save_manager,
                   files, tasks, result, prev_call, saved, run, trim>>
    /\ ClockDirUnchanged

DeleteHistoryFile ==
    /\ HistoryFilesIntact
    /\ FilesOnly([history_files EXCEPT !.log = None])

DamageHistoryFile ==
    /\ HistoryFilesIntact
    /\ FilesOnly([history_files EXCEPT !.log[1].readable = FALSE])

DamageEntry(i) ==
    /\ HistoryFilesIntact
    /\ i <= Len(history_files.log[1].history)
    /\ FilesOnly([history_files EXCEPT !.log[1].history[i].valid = FALSE])

DeleteSnapshotFile(b) ==
    /\ HistoryFilesIntact
    /\ FilesOnly([history_files EXCEPT !.snapshots = @ \ {b}])

DamageSnapshotFile(b) ==
    /\ HistoryFilesIntact
    /\ FilesOnly([history_files EXCEPT
                    !.snapshots = (@ \ {b}) \cup {<<b[1], 0>>}])

DamageInit ==
    InitSessionStored(AutoSaveConfig(FALSE, "after_operation", "overwrite"),
                      "json")

DamageNext ==
    \/ nrec < MaxPersisted /\ df = None /\ LoadData(None)
    \/ nrec < MaxPersisted /\ Edit
    \/ Undo(TRUE)
    \/ DeleteHistoryFile
    \/ DamageHistoryFile
    \/ \E i \in 1..max_history : DamageEntry(i)
    \/ \E b \in history_files.snapshots : DeleteSnapshotFile(b)
    \/ \E b \in history_files.snapshots : DamageSnapshotFile(b)
    \/ Reopen

DamageSpec == DamageInit /\ [][DamageNext]_vars

(***************************************************************************)
(* Part 8: operation ids read from the clock.                              *)
(*                                                                         *)
(* add_operation names an entry after the reading of datetime.utcnow() at  *)
(* the call (history_manager.py:197-198), in microseconds.  now is that    *)
(* reading.  It is the wall clock: between two calls it may have moved on, *)
(* be the same reading (a clock coarser than the time between the calls),  *)
(* or have been set back.                                                  *)
(***************************************************************************)
SetBack ==
    /\ now > 0
    /\ now' = now - 1
    /\ UNCHANGED <<df, file_path, history, current_index, redo_stack, nrec,
                   storage_type, history_files,
                   needs_autosave, sessions, sessions_to_cleanup, nsessions,
                   managers, auto_save_manager, files, tasks,
                   result, prev_call, saved, run, trim>>

IdInit == InitSession(AutoSaveConfig(FALSE, "after_operation", "overwrite"))

IdNext ==
    \/ nrec < MaxPersisted /\ df = None /\ LoadDataAt(None, now)
    \/ nrec < MaxPersisted /\ EditAt(now)
    \/ Undo(TRUE)
    \/ \E id \in 0..MaxStamp : RestoreToOperation(id, TRUE)
    \/ Advance(MaxStamp)
    \/ SetBack

IdSpec == IdInit /\ [][IdNext]_vars

(***************************************************************************)
(* Part 9: several sessions saving into one backup directory.              *)
(*                                                                         *)
(* Every CSVSession has its own AutoSaveManager (csv_session.py:43); the   *)
(* default backup_dir is the same for all of them (auto_save.py:37-48).    *)
(* In this part managers[i] is the manager of the session whose id is      *)
(* ShareIds[i], the dataset of that session is i, and files holds the      *)
(* files of backup_dir: <<name, content, mtime>>, name being the file name *)
(* character by character, with the fixed parts of the f-strings           *)
(* ("backup_", "version_", "_", "_v") kept as one element each.            *)
(***************************************************************************)
\* CSVSession(session_id=...), csv_session.py:24,31: the ids "s1", "s10", "s2"
ShareIds == << <<"s", "1">>, <<"s", "1", "0">>, <<"s", "2">> >>

\* a number below ten written out: strftime / the format of the version
Digit(n) == <<"0", "1", "2", "3", "4", "5", "6", "7", "8", "9">>[n + 1]

\* the file names of auto_save.py:191-199 with the session id written out
backup_file_name(session_id, m) ==
    IF m.config.strategy = "backup"
    THEN <<"backup_">> \o session_id \o <<"_", Digit(now)>>
    ELSE <<"version_">> \o session_id \o <<"_v", Digit(m.save_count + 1)>>

\* Path.glob(f"*{session_id}*"), auto_save.py:211-219: the names in which
\* the id occurs somewhere
glob_own_names(name, session_id) ==
    /\ Len(name) >= Len(session_id) + 2
    /\ SubSeq(name, 2, Len(session_id) + 1) = session_id
    /\ name[Len(session_id) + 2] \in {"_", "_v"}
glob(name, session_id) ==
    \E k \in 0..(Len(name) - Len(session_id)) :
        SubSeq(name, k + 1, k + Len(session_id)) = session_id

\* AutoSaveManager._cleanup_old_backups, auto_save.py:204-231, on the files
\* of the directory and the id of the manager's session
cleanup_backup_dir(fs, session_id) ==
    LET backup_files == {f \in fs : glob(f[1], session_id)}
    IN  (fs \ backup_files) \cup prune(backup_files)

\* trigger_save of the session ShareIds[i], auto_save.py:137-178
SharedSave(i, io_ok) ==
    LET m == managers[i]
        r == _save_callback(Some(i), io_ok)
        w == WriteFile(files, backup_file_name(ShareIds[i], m), i,
                       SumSaves(managers) + 1)
    IN  /\ r.success => SumSaves(managers) < MaxWrites
        /\ managers' = [managers EXCEPT
                          ![i].save_count = save_count_after(m, r.success),
                          ![i].last_save = IF r.success THEN now ELSE @]
        /\ files' = IF r.success THEN cleanup_backup_dir(w, ShareIds[i])
                                 ELSE files
        /\ result' = Result("shared_save", r.success, r.error)
        /\ prev_call' = result.call
        /\ saved' = Some([session |-> i, files |-> files])
        /\ UNCHANGED <<df, file_path, history, current_index, redo_stack,
                       nrec, storage_type, history_files, needs_autosave,
                       auto_save_manager, tasks, run, trim>>
        /\ ClockDirUnchanged

ShareInit ==
    /\ df = None
    /\ file_path = None
    /\ history = <<>>
    /\ current_index = -1
    /\ redo_stack = <<>>
    /\ nrec = 0
    /\ storage_type = "memory"
    /\ history_files = NoHistoryFiles
    /\ needs_autosave = FALSE
    /\ now = 0
    /\ sessions = (SID :> [last_accessed |-> 0])
    /\ sessions_to_cleanup = {}
    /\ nsessions = 1
    /\ \E st \in [1..Len(ShareIds) -> {"backup", "versioned"}] :
          managers = [i \in 1..Len(ShareIds) |->
                        AutoSaveManager(
                            AutoSaveConfig(TRUE, "after_operation", st[i]),
                            None)]
    /\ auto_save_manager = 1
    /\ files = {}
    /\ tasks = <<>>
    /\ result = Result("init", TRUE, "")
    /\ prev_call = "init"
    /\ saved = None
    /\ run = NoRun
    /\ trim = NoTrim

ShareNext ==
    \/ \E i \in 1..Len(ShareIds), io_ok \in BOOLEAN : SharedSave(i, io_ok)
    \/ Advance(MaxClock)

ShareSpec == ShareInit /\ [][ShareNext]_vars

(***************************************************************************)
(* Properties of the history engine, checked under Spec.                   *)
(***************************************************************************)
Recorded == result.call \in {"load", "edit"}
\* the entry the last undo took off the log's current position
Undone == redo_stack[Len(redo_stack)]

\* C1: after a load of D0, N >= 1 recorded edits and then N Session.undo
\* calls, the live dataset is D0.
C1_NEditsNUndosGiveOriginal ==
    (run.ok /\ run.edits >= 1 /\ run.undos = run.edits) => df = Some(run.d0)

\* C2: a single undo of an edit makes live the dataset that was live
\* immediately before that edit was recorded.
C2_UndoRestoresPreEditDataset ==
    (result.call = "undo" /\ result.success /\ Undone.operation_type = "edit")
        => df = Undone.prev

\* C3: undo() immediately followed by redo() leaves the live dataset, the
\* cursor and the redo buffer as they were before the undo, when the log has
\* a snapshot within snapshot_interval entries of the cursor.
SnapshotNear(h, c) ==
    \E i \in 0..c : /\ c - i <= snapshot_interval
                    /\ i < Len(h)
                    /\ h[i + 1].data_snapshot # None
C3_UndoThenRedoIsIdentity ==
    (/\ result.call = "redo"
     /\ prev_call = "undo"
     /\ saved # None
     /\ saved[1].current_index >= 0
     /\ SnapshotNear(history, saved[1].current_index))
        => /\ df = saved[1].df
           /\ current_index = saved[1].current_index
           /\ redo_stack = saved[1].redo_stack

\* C4: after any record() the redo buffer is empty, can_redo() is false, the
\* new entry is the last one, the cursor points at it, and no entry that was
\* past the cursor is still in the log.
C4_RecordClearsRedo ==
    Recorded =>
        /\ redo_stack = <<>>
        /\ ~can_redo(HM)
        /\ Len(history) >= 1
        /\ history[Len(history)].uid = nrec
        /\ current_index = Len(history) - 1
        /\ \A i \in 1..Len(history) : history[i].uid \notin trim.past
C4_Witness ==
    /\ result.call = "edit"
    /\ prev_call = "undo"
    /\ trim.past # {}

\* C5: undo() never ends in the missing-snapshot outcome.
C5_UndoAlwaysFindsSnapshot ==
    result.error # "No snapshot available for undo"

\* C6: -1 <= cursor <= len(log) - 1 in every reachable state.
C6_CursorInBounds ==
    /\ -1 <= current_index
    /\ current_index <= Len(history) - 1
C6_Witness ==
    /\ Recorded
    /\ trim.appended_len > Len(history)
    /\ current_index = Len(history) - 1
    /\ Len(history) = max_history

\* C7: the log never holds more than max_history entries, and a record()
\* that evicts from the front lowers the cursor by exactly the number of
\* evicted entries, never below -1.
C7_BoundedLogEvictionShiftsCursor ==
    /\ Len(history) <= max_history
    /\ Recorded =>
         /\ current_index = trim.appended_index - (trim.appended_len - Len(history))
         /\ current_index >= -1
C7_Witness ==
    /\ result.call = "edit"
    /\ trim.appended_len = Len(history) + 1
    /\ current_index = trim.appended_index - 1

\* C8: whenever the log is non-empty its entry at index 0 carries a snapshot.
C8_EntryZeroHasSnapshot ==
    Len(history) > 0 => history[1].data_snapshot # None

\* C9: once every edit recorded since the load has been undone and the live
\* dataset is the loaded original again, can_undo() is false.
C9_AllUndoneMeansCannotUndo ==
    (run.ok /\ run.edits >= 1 /\ run.undos = run.edits /\ df = Some(run.d0))
        => ~can_undo(HM)

\* C25: an undo called when can_undo() is false, a redo called with an empty
\* redo buffer and a restore to an operation id that is not in the log each
\* return a failure and change neither the cursor, the log, the redo buffer
\* nor the live dataset.
Ids(h) == {h[i].operation_id : i \in 1..Len(h)}
Refused ==
    \/ result'.call = "undo" /\ ~can_undo(HM)
    \/ result'.call = "redo" /\ ~can_redo(HM)
    \/ result'.call = "restore" /\ saved'[1].operation_id \notin Ids(history)
C25_RefusedCallsChangeNothing ==
    [][Refused => /\ ~result'.success
                  /\ UNCHANGED <<current_index, history, redo_stack, df>>]_vars
C25_Witness ==
    /\ result.call = "restore"
    /\ ~result.success
    /\ saved[1].operation_id \notin Ids(history)
    /\ saved[1].operation_id <= nrec
    /\ prev_call = "undo"
    /\ redo_stack # <<>>
    /\ current_index >= 0

\* C34: an undo or a redo that returns a failure, the failure "No snapshot
\* available" included, leaves the cursor, the redo buffer and the live
\* dataset as they were before the call.
C34_FailedUndoRedoChangesNothing ==
    [][(result'.call \in {"undo", "redo"} /\ ~result'.success)
          => UNCHANGED <<current_index, redo_stack, df>>]_vars

\* C35: the redo buffer, read from its top (the end of the list) downwards,
\* is the log entries at the indices cursor+1, cursor+2, ...; so the entry
\* that redo pops is the one at the cursor's new position.
C35_RedoBufferMirrorsLog ==
    \A k \in 1..Len(redo_stack) :
        /\ current_index + k <= Len(history) - 1
        /\ redo_stack[Len(redo_stack) - k + 1] = history[current_index + k + 1]
C35_Witness ==
    /\ result.call = "redo"
    /\ prev_call = "undo"
    /\ Len(redo_stack) >= 2
    /\ Len(history) = max_history

\* C26: a restore to the operation id of the entry at index t, when an entry
\* at or before t has a snapshot, sets the cursor to t, empties the redo
\* buffer, leaves the log as it was and makes live the snapshot of the
\* nearest such entry; when no entry at or before t has a snapshot it fails
\* and changes nothing.
Restoring == result'.call = "restore" /\ saved'[1].operation_id \in Ids(history)
Target ==
    CHOOSE t \in 0..(Len(history) - 1) :
        /\ history[t + 1].operation_id = saved'[1].operation_id
        /\ \A j \in 0..(t - 1) :
              history[j + 1].operation_id # saved'[1].operation_id
SnapshotsUpTo(t) == {i \in 0..t : history[i + 1].data_snapshot # None}
C26_RestoreJumpsToEntry ==
    [][Restoring =>
         IF SnapshotsUpTo(Target) # {}
         THEN /\ result'.success
              /\ current_index' = Target
              /\ redo_stack' = <<>>
              /\ history' = history
              /\ \E i \in SnapshotsUpTo(Target) :
                    /\ \A j \in SnapshotsUpTo(Target) : j <= i
                    /\ df' = history[i + 1].data_snapshot
         ELSE /\ ~result'.success
              /\ UNCHANGED <<current_index, history, redo_stack, df>>]_vars
C26_Witness ==
    /\ result.call = "restore"
    /\ result.success
    /\ prev_call = "undo"
    /\ current_index >= 1
    /\ history[current_index + 1].data_snapshot = None
    /\ history[current_index + 1].operation_id = saved[1].operation_id
    /\ Cardinality({i \in 1..current_index :
                       history[i].data_snapshot # None}) >= 1
    /\ df # None

(***************************************************************************)
(* Properties of the save tasks, checked under SaveSpec.                   *)
(***************************************************************************)
Saving == {t \in 1..Len(tasks) : tasks[t].pc = "writing"}

\* C10: at most one save of the session is between path resolution and
\* write completion at any time.
C10_OneSaveAtATime == Cardinality(Saving) <= 1

\* the periodic save loops that have not ended
RunningLoops ==
    {t \in 1..Len(tasks) : tasks[t].kind = "periodic" /\ tasks[t].pc # "done"}

\* C11: once remove(id) has returned, no periodic save loop ever started for
\* the session is still running.
C11_NoLoopAfterRemove == ~Live => RunningLoops = {}

\* C36: a session never has more than one periodic loop running, and
\* get_auto_save_status() reports periodic_active false only when none runs.
C36_AtMostOnePeriodicLoop ==
    /\ Cardinality(RunningLoops) <= 1
    /\ ~periodic_active(managers[auto_save_manager], tasks)
          => RunningLoops = {}

\* C14: while the session's configuration is disabled, no save other than a
\* manual one completes a write.
AutomaticWrite(t) ==
    /\ tasks[t].pc = "writing"
    /\ tasks[t].trigger # "manual"
    /\ managers'[tasks[t].manager].save_count
          > managers[tasks[t].manager].save_count
C14_NoAutomaticSaveWhileDisabled ==
    [][\A t \in 1..Len(tasks) :
          AutomaticWrite(t) => managers[auto_save_manager].config.enabled]_vars

(***************************************************************************)
(* Properties of the durability scheduler, checked under DurSpec.          *)
(***************************************************************************)
Triggered == result.call = "trigger"
Attempted == Triggered /\ result.returned # None
Saved == Attempted /\ result.success
Current == managers[auto_save_manager]
Min(a, b) == IF a <= b THEN a ELSE b

\* C12: a save that fails returns a failure result to its caller; the save
\* counter and the last-save time are as before, and the live dataset, the
\* log and the cursor are as the edit left them.
C12_FailedSaveIsStructuredAndHarmless ==
    (Attempted /\ ~result.success) =>
        /\ result.returned = Some(FALSE)
        /\ result.error # ""
        /\ Current.save_count = saved[1].manager.save_count
        /\ Current.last_save = saved[1].manager.last_save
        /\ df = saved[1].df
        /\ history = saved[1].history
        /\ current_index = saved[1].current_index
C12_Witness ==
    /\ Attempted
    /\ ~result.success
    /\ prev_call = "edit"
    /\ Current.save_count >= 1
    /\ now > Current.last_save

\* C13: with the overwrite strategy on a session loaded from path P, a
\* successful edit-triggered save leaves in P the live dataset and writes no
\* other file.
C13_OverwriteWritesOnlySource ==
    (/\ Saved
     /\ Current.config.strategy = "overwrite"
     /\ file_path = Some("P"))
        => /\ result.save_path = Some(<<"P", 0>>)
           /\ \E f \in files : f[1] = <<"P", 0>> /\ f[2] = df[1]
           /\ \A f \in files : f[1] # <<"P", 0>> => f \in saved[1].files
           /\ \A f \in saved[1].files : f[1] # <<"P", 0>> => f \in files
C13_Witness ==
    /\ Saved
    /\ Current.config.strategy = "overwrite"
    /\ file_path = Some("P")
    /\ prev_call = "edit"
    /\ Current.save_count >= 2

\* C15: trigger_auto_save_if_needed attempts a save exactly when the
\* configuration is enabled, the mode is after_operation or hybrid and the
\* needs_autosave flag is set; otherwise it returns None and changes neither
\* the files nor the manager.
C15_TriggerIffEnabledOnEditOwed ==
    Triggered =>
        /\ Attempted <=> /\ saved[1].manager.config.enabled
                         /\ saved[1].manager.config.mode
                                \in {"after_operation", "hybrid"}
                         /\ saved[1].needs_autosave
        /\ ~Attempted => /\ files = saved[1].files
                         /\ Current = saved[1].manager
                         /\ needs_autosave = saved[1].needs_autosave
C15_Witness ==
    /\ Triggered
    /\ ~Attempted
    /\ prev_call = "disable_auto_save"
    /\ needs_autosave
    /\ Current.config.mode = "after_operation"

\* C16: with the timestamped-backup strategy and retention limit
\* max_backups, after k successful saves exactly min(k, max_backups) backup
\* files exist, and they are the most recently written ones.
AllStrategy(st) == \A i \in 1..Len(managers) : managers[i].config.strategy = st
C16_BackupsKeepMostRecent ==
    AllStrategy("backup") =>
        LET k == SumSaves(managers)
        IN  /\ Cardinality(BackupFiles(files)) = Min(k, max_backups)
            /\ \A f \in BackupFiles(files) : f[3] > k - Min(k, max_backups)

\* C17: the backup directory never holds more than max_backups files of the
\* session, and a save under the backup or versioned strategy prunes oldest
\* first: every file it deleted is older than every file it kept.
Listed ==
    BackupFiles(WriteFile(saved[1].files, result.save_path[1],
                          saved[1].df[1], saved[1].nsaves + 1))
Deleted == {f \in Listed : f \notin files}
C17_RetentionBoundOldestFirst ==
    /\ Cardinality(BackupFiles(files)) <= max_backups
    /\ (Saved /\ Current.config.strategy \in {"backup", "versioned"}) =>
          \A d \in Deleted : \A f \in BackupFiles(files) : d[3] < f[3]
C17_Witness ==
    /\ Saved
    /\ Current.config.strategy \in {"backup", "versioned"}
    /\ Deleted # {}

\* C18: with the versioned strategy the k-th successful save of the session
\* writes version k.
C18_KthSaveWritesVersionK ==
    (Saved /\ AllStrategy("versioned")) =>
        result.save_path = Some(<<"version", saved[1].nsaves + 1>>)

\* C24: a save under the overwrite strategy on a session without an origin
\* file path fails: failure result, no file written, save counter unchanged.
C24_OverwriteWithoutSourceFails ==
    (/\ Attempted
     /\ saved[1].manager.config.strategy = "overwrite"
     /\ file_path = None)
        => /\ ~result.success
           /\ files = saved[1].files
           /\ Current.save_count = saved[1].manager.save_count

\* C33: a successful save under the versioned strategy writes a version
\* number greater than that of every version file the session has written
\* before, so it overwrites none of them, also after enable_auto_save
\* replaced the configuration.
C33_VersionsStrictlyIncrease ==
    (Saved /\ Current.config.strategy = "versioned") =>
        \A f \in saved[1].files :
            f[1][1] = "version" => f[1][2] < result.save_path[1][2]

\* C40: a successful save under the overwrite strategy writes the path the
\* live dataset was loaded from; when the dataset was loaded from content,
\* without a path, it writes none of the paths loaded from before.
C40_OverwriteFollowsReload ==
    (Saved /\ Current.config.strategy = "overwrite") =>
        IF file_path # None
        THEN result.save_path = Some(<<file_path[1], 0>>)
        ELSE \A fp \in ReloadPaths \ {None} : result.save_path[1][1] # fp[1]

\* a step of trigger_auto_save_if_needed
TriggerStep ==
    result'.call = "trigger" /\ saved' = Some(Entry) /\ UNCHANGED now

Waiting(t) == t <= Len(tasks) /\ tasks[t].pc = "waiting"
LockHeldByWriter ==
    \A i \in 1..Len(managers) :
        managers[i].lock # 0 =>
            /\ tasks[managers[i].lock].pc = "writing"
            /\ tasks[managers[i].lock].manager = i

\* C19: the lock is held only by a save that is still running, whichever way
\* the earlier saves ended (success, failure, cancellation while holding or
\* awaiting the lock), and a save that waits for it gets past the wait.
C19_LockReleasedOnEveryExit ==
    /\ []LockHeldByWriter
    /\ \A t \in 1..MaxTasks : Waiting(t) ~> ~Waiting(t)
C19_Witness ==
    \E t \in 1..Len(tasks) : \E u \in 1..Len(tasks) :
        /\ tasks[t].cancelled = "writing"
        /\ tasks[u].pc = "waiting"
        /\ tasks[u].manager = tasks[t].manager
        /\ managers[tasks[t].manager].lock = 0

\* a periodic loop that has not ended
Looping(t) ==
    t <= Len(tasks) /\ tasks[t].kind = "periodic" /\ tasks[t].pc # "done"
\* a save attempt of the loop: trigger_save holds the lock and calls the writer
Attempting(t) == Looping(t) /\ tasks[t].pc = "writing"

\* C31: a periodic loop that goes on makes save attempts with the trigger
\* "periodic" again and again, also after attempts that failed, and a loop
\* ends only by being cancelled.
C31_PeriodicLoopSavesUntilCancelled ==
    /\ \A t \in 1..MaxTasks : []<>(~Looping(t) \/ Attempting(t))
    /\ [](\A t \in 1..Len(tasks) :
             /\ tasks[t].kind = "periodic" => tasks[t].trigger = "periodic"
             /\ (tasks[t].kind = "periodic" /\ tasks[t].pc = "done")
                    => tasks[t].cancelled # "no")
C31_Witness ==
    \E t \in 1..Len(tasks) :
        /\ Attempting(t)
        /\ tasks[t].failed
        /\ tasks[t].cancelled = "no"

(***************************************************************************)
(* Properties of the directory, checked under DirSpec.                     *)
(***************************************************************************)
\* C20: get(id) returns the session exactly when it is in the directory and
\* now - last_accessed <= ttl, and then refreshes last_accessed; for an
\* expired session it returns nothing, leaves the session and its
\* last_accessed as they are and only adds the id to the marked set.
C20_GetReturnsLiveMarksExpired ==
    result.call = "get" =>
        LET e      == saved[1]
            in_dir == e.id \in DOMAIN e.sessions
            fresh  == in_dir /\ e.now - e.sessions[e.id].last_accessed <= ttl
        IN  /\ result.returned # None <=> fresh
            /\ fresh =>
                 /\ result.returned = Some(e.id)
                 /\ sessions = [e.sessions EXCEPT ![e.id].last_accessed = e.now]
                 /\ sessions_to_cleanup = e.sessions_to_cleanup
            /\ (in_dir /\ ~fresh) =>
                 /\ sessions = e.sessions
                 /\ sessions_to_cleanup = e.sessions_to_cleanup \cup {e.id}
            /\ ~in_dir =>
                 /\ sessions = e.sessions
                 /\ sessions_to_cleanup = e.sessions_to_cleanup
C20_Witness ==
    /\ result.call = "get"
    /\ result.returned = None
    /\ saved[1].id \in DOMAIN sessions
    /\ saved[1].id \in sessions_to_cleanup
    /\ saved[1].id \notin saved[1].sessions_to_cleanup
    /\ \E j \in DOMAIN sessions : now - sessions[j].last_accessed = ttl

(***************************************************************************)
(* Properties of the sweep, checked under SweepSpec and DirSpec.           *)
(***************************************************************************)
\* C21: after a sweep followed by the cleanup of the marked sessions, every
\* session that was expired at the sweep is out of the directory, its
\* dataset and history are cleared and none of its periodic loops runs.
C21_SweptSessionsFullyRemoved ==
    (result.call = "cleanup" /\ prev_call = "list") =>
        \A id \in saved[1].swept :
            /\ id \notin DOMAIN sessions
            /\ id = SID => /\ df = None
                           /\ history = <<>>
                           /\ current_index = -1
                           /\ RunningLoops = {}

\* C22: the directory never holds more than max_sessions sessions; a create
\* at capacity removes exactly one session, one whose last_accessed is the
\* smallest, every other session stays as it was, and the new session is in
\* the directory afterwards.
Evicted == DOMAIN saved[1].sessions \ DOMAIN sessions
C22_CreateEvictsLeastRecentlyAccessed ==
    /\ Cardinality(DOMAIN sessions) <= max_sessions
    /\ result.call = "create" =>
          LET e  == saved[1].sessions
              id == result.returned[1]
          IN  /\ id \in DOMAIN sessions
              /\ id \notin DOMAIN e
              /\ DOMAIN sessions \ DOMAIN e = {id}
              /\ \A j \in DOMAIN sessions \ {id} : sessions[j] = e[j]
              /\ IF Cardinality(DOMAIN e) >= max_sessions
                 THEN /\ Cardinality(Evicted) = 1
                      /\ \A v \in Evicted : \A j \in DOMAIN e :
                            e[v].last_accessed <= e[j].last_accessed
                 ELSE Evicted = {}
C22_Witness ==
    /\ result.call = "create"
    /\ Cardinality(DOMAIN sessions) = max_sessions
    /\ Evicted # {}
    /\ \E v \in Evicted : \E j \in DOMAIN sessions \ {result.returned[1]} :
          saved[1].sessions[v].last_accessed < sessions[j].last_accessed

\* C38: a session that create_session evicted is released as by
\* remove_session: its periodic loop is stopped, its dataset and its history
\* are cleared, and no save of it is under way afterwards.
C38_EvictedSessionIsReleased ==
    /\ (result.call = "create" /\ SID \in Evicted) =>
            /\ RunningLoops = {}
            /\ df = None
            /\ history = <<>>
            /\ redo_stack = <<>>
    /\ ~Live => \A t \in 1..Len(tasks) : tasks[t].pc # "writing"

\* C39: cleanup_marked_sessions removes only sessions that are expired when
\* it removes them; a marked session whose last_accessed was refreshed since
\* stays in the directory.
C39_CleanupRemovesOnlyExpired ==
    result.call = "cleanup" =>
        \A id \in DOMAIN saved[1].sessions :
            id \notin DOMAIN sessions => is_expired(saved[1].sessions, id)

C27_ReloadGivesSameLog ==
    result.call = "reopen" =>
        LET e == saved[1]
        IN  /\ Len(history) = Len(e.history)
            /\ current_index = e.current_index
            /\ \A i \in 1..Len(history) :
                  /\ i <= Len(e.history)
                  /\ history[i].operation_id = e.history[i].operation_id
                  /\ history[i].operation_type = e.history[i].operation_type
                  /\ (history[i].data_snapshot # None)
                        <=> (e.history[i].data_snapshot # None)
C27_Witness ==
    /\ result.call = "reopen"
    /\ prev_call \in {"undo", "restore"}
    /\ storage_type = "json"
    /\ Len(history) = max_history
    /\ current_index < Len(history) - 1
    /\ history[1].operation_type = "edit"
    /\ \E i \in 1..Len(history) : history[i].data_snapshot # None
    /\ \E i \in 1..Len(history) : history[i].data_snapshot = None

\* C28: when the history file, one of its entries or one of its snapshot
\* files is missing or damaged, the history manager constructed from it has
\* an empty log, the cursor at -1 and an empty redo buffer.
C28_DamagedFilesGiveEmptyLog ==
    (result.call = "reopen" /\ saved[1].damaged) =>
        /\ history = <<>>
        /\ current_index = -1
        /\ redo_stack = <<>>

\* C29: the entries of the log have pairwise different operation ids, in
\* the order in which they were recorded, whatever the clock read at each
\* record; and after restore_to_operation(id) succeeded the cursor is on the
\* only entry with that id.
C29_IdsUniqueAndTimeOrdered ==
    /\ \A i, j \in 1..Len(history) :
           i < j => history[i].operation_id < history[j].operation_id
    /\ (result.call = "restore" /\ result.success) =>
           \A i \in 1..Len(history) :
               history[i].operation_id = saved[1].operation_id
                   => i = current_index + 1

\* C37: the files that the retention pruning of a save deletes were written
\* for the session that saves: their names are backup_<id>_... or
\* version_<id>_v... with that session's id, whatever the other ids are.
C37_PruningDeletesOwnFilesOnly ==
    result.call = "shared_save" =>
        \A f \in saved[1].files :
            f \notin files => glob_own_names(f[1], ShareIds[saved[1].session])

\* C30: after the history was cleared, by clear() or by remove(id), the log
\* and the redo buffer are empty, the cursor is -1, the history file and the
\* snapshot files of the session are gone, and a history manager constructed
\* for the same id afterwards has an empty log.
Cleared ==
    \/ result.call = "clear"
    \/ result.call = "remove" /\ result.success
C30_ClearRemovesPersistedHistory ==
    /\ Cleared => /\ history = <<>>
                  /\ current_index = -1
                  /\ redo_stack = <<>>
                  /\ history_files = NoHistoryFiles
    /\ (result.call = "reopen" /\ prev_call \in {"clear", "remove"}) =>
          /\ history = <<>>
          /\ current_index = -1
          /\ redo_stack = <<>>
C30_Witness ==
    /\ Cleared
    /\ storage_type = "json"
    /\ saved[1].history_files.log # None
    /\ Cardinality(saved[1].history_files.snapshots) >= 2
    /\ history_files = NoHistoryFiles

====
